---- MODULE Spec2Model ----
(***************************************************************************)
(* NihongoFlow: the App component (history store, generation requests,     *)
(* active session), the Player component (playback controller and loop    *)
(* state machine), the segment mapper and the WAV encoder.                 *)
(*                                                                         *)
(* Conventions.  A JavaScript string is a sequence of characters.  A value *)
(* that may be null/undefined is a sequence of length 0 (absent) or 1.     *)
(* Times are integers counted in ticks, TicksPerSecond ticks to a second.  *)
(* Playback rates are integers counted in tenths (0.8 is 8, 1.0 is 10).    *)
(***************************************************************************)
EXTENDS Integers, Sequences, FiniteSets, TLC

VARIABLES
    history,            \* App: useState<HistoryItem[]>
    activeItem,         \* App: useState<HistoryItem | null>
    audioUrl,           \* App: useState<string | null>
    isLoading,          \* App: useState(false)
    inputText,          \* App: useState('')
    error,              \* App: useState<string | null>
    pending,            \* the async handlers suspended at their await
    nextSeq,            \* number of requests issued so far
    gensIssued,         \* number of those that were generations
    nextId,             \* number of ids uuidv4() has produced
    now,                \* Date.now()
    isPlaying,          \* Player: useState(false)
    currentTime,        \* Player: useState(activeItem.lastPosition || 0)
    duration,           \* Player: useState(0)
    repeatMode,         \* Player: useState(activeItem.repeatMode || ONCE)
    playbackRate,       \* Player: useState(activeItem.playbackRate || 1.0)
    currentRepeatCount, \* Player: useState(1)
    audioTime,          \* the <audio> element's currentTime
    audioPaused,        \* the <audio> element's paused
    audioRate,          \* the <audio> element's playbackRate
    segmenter,          \* the platform's Intl.Segmenter, or its absence
    pcmData,            \* generateJapaneseSpeech: the decoded PCM bytes
    sampleRate,         \* the sample rate pcmToWav is called with
    wavBuffer,          \* generateJapaneseSpeech: the buffer pcmToWav returned
    storage,            \* localStorage: the value stored under STORAGE_KEY
    phase,              \* the App's life: "unmounted", "loading", "ready", "crashed"
    loaded,             \* the load effect's setHistory(parsed) not yet rendered
    objectUrls,         \* the handles of URL.createObjectURL not revoked so far
    budget,             \* user gestures on the player still allowed (bound)
    lastOp              \* the handler that ran last, and its argument

appVars == <<history, activeItem, audioUrl, isLoading, inputText, error,
             pending, nextSeq, gensIssued, nextId, now>>
playerVars == <<isPlaying, currentTime, duration, repeatMode, playbackRate,
                currentRepeatCount, audioTime, audioPaused, audioRate>>
platformVars == <<segmenter, pcmData, sampleRate, wavBuffer>>
storeVars == <<storage, phase, loaded, objectUrls>>
vars == <<appVars, playerVars, platformVars, storeVars, budget, lastOp>>

----------------------------------------------------------------------------
(* Bounds of the model *)

MaxGen == 2
MaxSel == 1
MaxGestures == 1
MaxPlayerGestures == 2
SeekSample == 1
\* The resolution of time: ticks to a second.
TicksPerSecond == 2

(* Program constants *)

SAMPLE_RATE == 24000
ONCE == 1
DefaultRate == 10
PLAYBACK_SPEEDS == {8, 10, 15, 20, 30}
REPEAT_COUNTS == {1, 5, 10, 30}

None == <<>>
Some(x) == <<x>>

\* JavaScript's  v || d  on numbers: 0, NaN and undefined are falsy.
OrElse(v, d) == IF v = 0 THEN d ELSE v


----------------------------------------------------------------------------
(* Strings *)

IsSpace(c) == c = " "

RECURSIVE TrimStart(_)
TrimStart(s) ==
    IF s # <<>> /\ IsSpace(Head(s)) THEN TrimStart(Tail(s)) ELSE s

RECURSIVE TrimEnd(_)
TrimEnd(s) ==
    IF s # <<>> /\ IsSpace(s[Len(s)]) THEN TrimEnd(SubSeq(s, 1, Len(s) - 1)) ELSE s

\* String.prototype.trim
Trim(s) == TrimEnd(TrimStart(s))

----------------------------------------------------------------------------
(* The external collaborators *)

\* The texts the user types.
TextA == <<"k", "a">>
TextB == <<"a", " ">>
InputTexts == {<<>>, <<" ">>, TextA, TextB}

Token(surface, reading) == [surface |-> surface, reading |-> reading]

\* analyzeJapaneseText resolves with whatever token list the model returned,
\* or with [] when the call or the parse failed.
AnalysisResults(text) ==
    { <<>>,
      <<Token(text, None)>>,
      [i \in 1..Len(text) |-> Token(<<text[i]>>, None)] }

\* URL.createObjectURL gives every successful synthesis a fresh handle; the
\* handle is named by the request that made it and the text it speaks.
ObjectUrl(r) == [seq |-> r.seq, text |-> r.text]

\* The length of the synthesized audio, in ticks.
AudioDuration(url) == 3 * Len(url.text)

----------------------------------------------------------------------------
(* The history collection *)

HistoryItem(id, text, tokens, createdAt, lastPosition, rMode, rate) ==
    [id |-> id, text |-> text, tokens |-> tokens, createdAt |-> createdAt,
     lastPosition |-> lastPosition, repeatMode |-> rMode, playbackRate |-> rate]

\* Array.prototype.findIndex(h => h.text === text), 1-based; 0 is JavaScript's -1.
FindIndex(hist, text) ==
    IF \E i \in 1..Len(hist) : hist[i].text = text
    THEN CHOOSE i \in 1..Len(hist) :
            /\ hist[i].text = text
            /\ \A j \in 1..(i - 1) : hist[j].text # text
    ELSE 0

\* newHist.splice(existingIndex, 1)
Splice(hist, i) == SubSeq(hist, 1, i - 1) \o SubSeq(hist, i + 1, Len(hist))

\* The item handleGenerate builds once both promises have settled.
NewItem(hist, text, tokens, freshId, time) ==
    LET existingIndex == FindIndex(hist, text) IN
    IF existingIndex >= 1
    THEN [hist[existingIndex] EXCEPT
            !.createdAt = time,
            !.tokens = IF Len(tokens) > 0 THEN tokens ELSE @]
    ELSE HistoryItem(freshId, text, tokens, time, 0, ONCE, DefaultRate)

\* The collection of a handleGenerate that never looks for the text.
CreateAlways(hist, text, tokens, freshId, time) ==
    <<NewItem(hist, text, tokens, freshId, time)>> \o hist

\* The collection handleGenerate passes to setHistory.
CreateOrUpdate(hist, text, tokens, freshId, time) ==
    LET existingIndex == FindIndex(hist, text)
        newItem == NewItem(hist, text, tokens, freshId, time)
    IN  IF existingIndex >= 1
        THEN <<newItem>> \o Splice(hist, existingIndex)
        ELSE <<newItem>> \o hist

\* filter dropping the first item whatever its id.
RemoveFirst(hist, id) == Tail(hist)

\* prev.filter(item => item.id !== id)
Remove(hist, id) == SelectSeq(hist, LAMBDA item : item.id # id)

\* The update moving the updated item to the front, as a re-submission does.
UpdateProgressToFront(hist, id, progress, rMode, rate) ==
    SelectSeq([i \in 1..Len(hist) |->
                  [hist[i] EXCEPT !.lastPosition = progress,
                                  !.repeatMode = rMode,
                                  !.playbackRate = rate]],
              LAMBDA item : item.id = id)
    \o SelectSeq(hist, LAMBDA item : item.id # id)

\* prev.map(item => item.id === id ? {...item, lastPosition, repeatMode, playbackRate} : item)
UpdateProgress(hist, id, progress, rMode, rate) ==
    [i \in 1..Len(hist) |->
        IF hist[i].id = id
        THEN [hist[i] EXCEPT !.lastPosition = progress,
                             !.repeatMode = rMode,
                             !.playbackRate = rate]
        ELSE hist[i]]

----------------------------------------------------------------------------
(* The persisted snapshot: localStorage under STORAGE_KEY *)

\* JSON.stringify of a token: a reading that is undefined is left out.
EncodeToken(token) ==
    IF token.reading = None THEN <<token.surface>>
    ELSE <<token.surface, token.reading[1]>>

\* JSON.parse of a token: a key that is missing reads as undefined.
DecodeToken(t) == Token(t[1], IF Len(t) >= 2 THEN Some(t[2]) ELSE None)

\* JSON.stringify of an item: its values in the order of its keys.
EncodeItem(item) ==
    << item.id, item.text, [i \in 1..Len(item.tokens) |-> EncodeToken(item.tokens[i])],
       item.createdAt, item.lastPosition, item.repeatMode, item.playbackRate >>

DecodeItem(t) ==
    HistoryItem(t[1], t[2], [i \in 1..Len(t[3]) |-> DecodeToken(t[3][i])],
                t[4], t[5], t[6], t[7])

\* localStorage.getItem returns null: nothing is stored under the key.
Absent == [kind |-> "absent", items |-> <<>>]

\* A stored string JSON.parse throws on.
Garbage == [kind |-> "garbage", items |-> <<>>]

\* A stored string JSON.parse accepts whose value is no array, as "{}".
NotAnArray == [kind |-> "object", items |-> <<>>]

\* JSON.stringify(history)
Stringify(hist) ==
    [kind |-> "array", items |-> [i \in 1..Len(hist) |-> EncodeItem(hist[i])]]

\* JSON.parse(saved) of a stored array.
Parse(saved) == [i \in 1..Len(saved.items) |-> DecodeItem(saved.items[i])]

\* The save effect, on [history]: it runs after every render in which
\* setHistory has given the state a new array.
SaveEffect ==
    storage' = IF history' # history THEN Stringify(history') ELSE storage

----------------------------------------------------------------------------
(* The audio container encoder: pcmToWav *)

RECURSIVE Pow256(_)
Pow256(n) == IF n = 0 THEN 1 ELSE 256 * Pow256(n - 1)

\* The byte order reversed: most significant byte first.
LittleEndianReversed(value, nbytes) ==
    [i \in 1..nbytes |-> (value \div Pow256(nbytes - i)) % 256]

\* DataView.setUint16/setUint32(offset, value, true): the low nbytes bytes of
\* value, least significant first; higher bits are dropped.
LittleEndian(value, nbytes) ==
    [i \in 1..nbytes |-> (value \div Pow256(i - 1)) % 256]

\* String.prototype.charCodeAt for the characters of the chunk tags.
CharCode(c) ==
    CASE c = "R" -> 82  [] c = "I" -> 73  [] c = "F" -> 70  [] c = "W" -> 87
      [] c = "A" -> 65  [] c = "V" -> 86  [] c = "E" -> 69  [] c = "f" -> 102
      [] c = "m" -> 109 [] c = "t" -> 116 [] c = " " -> 32  [] c = "d" -> 100
      [] c = "a" -> 97

\* Bytes stored into the buffer from a byte offset on (offsets count from 0).
WriteBytes(buffer, offset, bytes) ==
    [i \in 1..Len(buffer) |->
        IF offset < i /\ i <= offset + Len(bytes) THEN bytes[i - offset] ELSE buffer[i]]

\* writeString(view, offset, string)
WriteString(buffer, offset, string) ==
    WriteBytes(buffer, offset, [i \in 1..Len(string) |-> CharCode(string[i])])

SetUint32(buffer, offset, value) == WriteBytes(buffer, offset, LittleEndian(value, 4))

SetUint16(buffer, offset, value) == WriteBytes(buffer, offset, LittleEndian(value, 2))

\* pcmToWav(pcmData, sampleRate)
PcmToWav(data, rate) ==
    LET numChannels == 1
        bitsPerSample == 16
        byteRate == (rate * numChannels * bitsPerSample) \div 8
        blockAlign == (numChannels * bitsPerSample) \div 8
        dataSize == Len(data)
        b0 == [i \in 1..(44 + dataSize) |-> 0]
        b1 == WriteString(b0, 0, <<"R", "I", "F", "F">>)
        b2 == SetUint32(b1, 4, 36 + dataSize)
        b3 == WriteString(b2, 8, <<"W", "A", "V", "E">>)
        b4 == WriteString(b3, 12, <<"f", "m", "t", " ">>)
        b5 == SetUint32(b4, 16, 16)
        b6 == SetUint16(b5, 20, 1)
        b7 == SetUint16(b6, 22, numChannels)
        b8 == SetUint32(b7, 24, rate)
        b9 == SetUint32(b8, 28, byteRate)
        b10 == SetUint16(b9, 32, blockAlign)
        b11 == SetUint16(b10, 34, bitsPerSample)
        b12 == WriteString(b11, 36, <<"d", "a", "t", "a">>)
        b13 == SetUint32(b12, 40, dataSize)
    IN  WriteBytes(b13, 44, data)

----------------------------------------------------------------------------
(* The segment mapper: the Player's segments useMemo *)

\* Intl.Segmenter('ja-JP', {granularity: 'word'}).segment(text), as the two
\* platforms of the model implement it: "wordRuns" cuts where white space
\* begins or ends, "perChar" after every character.  Each yields the
\* iterator's records {segment, index, input, isWordLike}.
RunEnd(text, i) ==
    CHOOSE j \in i..Len(text) :
        /\ \A k \in i..j : IsSpace(text[k]) = IsSpace(text[i])
        /\ j = Len(text) \/ IsSpace(text[j + 1]) # IsSpace(text[i])

RECURSIVE WordRuns(_, _)
WordRuns(text, i) ==
    IF i > Len(text) THEN <<>>
    ELSE LET j == RunEnd(text, i) IN
         << [segment |-> SubSeq(text, i, j), index |-> i - 1, input |-> text,
             isWordLike |-> ~IsSpace(text[i])] >> \o WordRuns(text, j + 1)

SegmenterOutput(text) ==
    IF segmenter = "perChar"
    THEN [i \in 1..Len(text) |->
            [segment |-> <<text[i]>>, index |-> i - 1, input |-> text,
             isWordLike |-> ~IsSpace(text[i])]]
    ELSE WordRuns(text, 1)

\* The token path with charIndex advanced by one per token, not by its length.
RECURSIVE TokenSegmentsByOne(_, _, _)
TokenSegmentsByOne(tokens, idx, charIndex) ==
    IF idx > Len(tokens) THEN <<>>
    ELSE LET token == tokens[idx] IN
         << [segment |-> token.surface,
             reading |-> token.reading,
             index |-> idx - 1,
             input |-> token.surface,
             isWordLike |-> TRUE,
             startCharIndex |-> charIndex,
             endCharIndex |-> charIndex + Len(token.surface)] >>
         \o TokenSegmentsByOne(tokens, idx + 1, charIndex + 1)

\* activeItem.tokens.forEach(...): the token path.
RECURSIVE TokenSegments(_, _, _)
TokenSegments(tokens, idx, charIndex) ==
    IF idx > Len(tokens) THEN <<>>
    ELSE LET token == tokens[idx] IN
         << [segment |-> token.surface,
             reading |-> token.reading,
             index |-> idx - 1,
             input |-> token.surface,
             isWordLike |-> TRUE,
             startCharIndex |-> charIndex,
             endCharIndex |-> charIndex + Len(token.surface)] >>
         \o TokenSegments(tokens, idx + 1, charIndex + Len(token.surface))

\* for (const seg of iterator) {...}: the Intl.Segmenter path.
RECURSIVE FallbackSegments(_, _, _)
FallbackSegments(iterator, k, charIndex) ==
    IF k > Len(iterator) THEN <<>>
    ELSE LET seg == iterator[k] IN
         << [segment |-> seg.segment,
             reading |-> None,
             index |-> seg.index,
             input |-> seg.input,
             isWordLike |-> seg.isWordLike,
             startCharIndex |-> charIndex,
             endCharIndex |-> charIndex + Len(seg.segment)] >>
         \o FallbackSegments(iterator, k + 1, charIndex + Len(seg.segment))

\* The single segment returned when there is no Intl.Segmenter.
WholeTextSegment(text) ==
    << [segment |-> text, reading |-> None, index |-> 0, input |-> text,
        isWordLike |-> TRUE, startCharIndex |-> 0, endCharIndex |-> Len(text)] >>

\* The value of the segments useMemo for an item.
Segments(item) ==
    IF Len(item.tokens) > 0 THEN TokenSegments(item.tokens, 1, 0)
    ELSE IF item.text = <<>> THEN <<>>
    ELSE IF segmenter = "unavailable" THEN WholeTextSegment(item.text)
    ELSE FallbackSegments(SegmenterOutput(item.text), 1, 0)

\* const totalChars = activeItem.text.length
TotalChars(item) == Len(item.text)

----------------------------------------------------------------------------
(* The Player component: mounting, unmounting and its effects *)

\* <Player> is rendered exactly while activeItem is set (App, view 2).
Mounted == activeItem # None

\* No Player is mounted: its state does not exist.
PlayerGone ==
    /\ isPlaying' = FALSE
    /\ currentTime' = 0
    /\ duration' = 0
    /\ repeatMode' = ONCE
    /\ playbackRate' = DefaultRate
    /\ currentRepeatCount' = 1
    /\ audioTime' = 0
    /\ audioPaused' = TRUE
    /\ audioRate' = DefaultRate

\* First render of the Player for item: the useState initialisers, then the
\* restore effect on the fresh <audio> element.
PlayerMount(item) ==
    /\ isPlaying' = FALSE
    /\ currentTime' = OrElse(item.lastPosition, 0)
    /\ duration' = 0
    /\ repeatMode' = OrElse(item.repeatMode, ONCE)
    /\ playbackRate' = OrElse(item.playbackRate, DefaultRate)
    /\ currentRepeatCount' = 1
    /\ audioTime' = IF item.lastPosition > 0 THEN item.lastPosition ELSE 0
    /\ audioPaused' = TRUE
    /\ audioRate' = OrElse(item.playbackRate, DefaultRate)

\* The Player stays mounted and audioUrl changed: the <audio> element loads
\* the new source (position 0, paused) and the restore effect runs for the
\* item that is active now; no useState initialiser runs again.
PlayerNewAudio(item) ==
    /\ currentTime' = IF item.lastPosition > 0 THEN item.lastPosition ELSE currentTime
    /\ audioTime' = IF item.lastPosition > 0 THEN item.lastPosition ELSE 0
    /\ audioPaused' = TRUE
    /\ audioRate' = playbackRate
    /\ UNCHANGED <<isPlaying, duration, repeatMode, playbackRate, currentRepeatCount>>

\* What a change of the App's activeItem/audioUrl does to the Player.
PlayerRender(newActive, urlChanged) ==
    IF newActive = None THEN PlayerGone
    ELSE IF ~Mounted THEN PlayerMount(newActive[1])
    ELSE IF urlChanged THEN PlayerNewAudio(newActive[1])
    ELSE UNCHANGED playerVars

\* The history after the render: a mounting Player's playbackRate effect
\* reports the item's own values through onUpdateProgress.
AfterRender(hist, newActive) ==
    IF newActive # None /\ ~Mounted
    THEN LET item == newActive[1] IN
         UpdateProgress(hist, item.id, OrElse(item.lastPosition, 0),
                        OrElse(item.repeatMode, ONCE),
                        OrElse(item.playbackRate, DefaultRate))
    ELSE hist

----------------------------------------------------------------------------
(* The App component's handlers *)

\* textarea onChange
SetInputText(t) ==
    /\ activeItem = None
    /\ inputText' = t
    /\ lastOp' = <<"SetInputText", 0>>
    /\ UNCHANGED platformVars
    /\ UNCHANGED <<history, activeItem, audioUrl, isLoading, error, pending,
                   nextSeq, gensIssued, nextId, now, playerVars, budget>>
    /\ SaveEffect
    /\ UNCHANGED <<phase, loaded, objectUrls>>

\* handleGenerate up to its await: the closure keeps this render's history
\* and inputText.
HandleGenerate ==
    /\ activeItem = None
    /\ ~isLoading
    /\ Trim(inputText) # <<>>
    /\ gensIssued < MaxGen
    /\ gensIssued' = gensIssued + 1
    /\ isLoading' = TRUE
    /\ error' = None
    /\ audioUrl' = None
    /\ nextSeq' = nextSeq + 1
    /\ pending' = pending \cup
            {[kind |-> "gen", seq |-> nextSeq + 1, text |-> inputText, hist |-> history]}
    /\ lastOp' = <<"HandleGenerate", nextSeq + 1>>
    /\ UNCHANGED platformVars
    /\ UNCHANGED <<history, activeItem, inputText, nextId, now, playerVars, budget>>
    /\ SaveEffect
    /\ UNCHANGED <<phase, loaded, objectUrls>>

\* The catch branch committing the item all the same, with no tokens.
GenerateFailedCommitting(r) ==
    /\ r \in pending /\ r.kind = "gen"
    /\ pending' = pending \ {r}
    /\ error' = Some("Failed to generate speech")
    /\ isLoading' = FALSE
    /\ history' = CreateOrUpdate(history, r.text, <<>>, nextId + 1, now)
    /\ lastOp' = <<"GenerateFailed", r.seq>>
    /\ UNCHANGED platformVars
    /\ UNCHANGED <<activeItem, audioUrl, inputText, nextSeq, gensIssued, nextId,
                   now, playerVars, budget>>
    /\ SaveEffect
    /\ UNCHANGED <<phase, loaded, objectUrls>>

\* handleGenerate after its await, synthesis rejected: catch and finally.
GenerateFailed(r) ==
    /\ r \in pending /\ r.kind = "gen"
    /\ pending' = pending \ {r}
    /\ error' = Some("Failed to generate speech")
    /\ isLoading' = FALSE
    /\ lastOp' = <<"GenerateFailed", r.seq>>
    /\ UNCHANGED platformVars
    /\ UNCHANGED <<history, activeItem, audioUrl, inputText, nextSeq, gensIssued, nextId,
                   now, playerVars, budget>>
    /\ SaveEffect
    /\ UNCHANGED <<phase, loaded, objectUrls>>

\* handleGenerate after its await, synthesis fulfilled; tokens is the value
\* of the analysis, [] when it was rejected.
GenerateResolved(r, tokens) ==
    /\ r \in pending /\ r.kind = "gen"
    /\ LET newItem == NewItem(r.hist, r.text, tokens, nextId + 1, now)
           newHist == CreateOrUpdate(r.hist, r.text, tokens, nextId + 1, now)
       IN  /\ history' = AfterRender(newHist, Some(newItem))
           /\ activeItem' = Some(newItem)
           /\ audioUrl' = Some(ObjectUrl(r))
           /\ PlayerRender(Some(newItem), TRUE)
    /\ nextId' = IF FindIndex(r.hist, r.text) >= 1 THEN nextId ELSE nextId + 1
    /\ now' = now + 1
    /\ pending' = pending \ {r}
    /\ isLoading' = FALSE
    /\ lastOp' = <<"GenerateResolved", r.seq>>
    /\ UNCHANGED platformVars
    /\ UNCHANGED <<inputText, error, nextSeq, gensIssued, budget>>
    /\ SaveEffect
    /\ objectUrls' = objectUrls \cup {ObjectUrl(r)}
    /\ UNCHANGED <<phase, loaded>>

\* handleSelectHistory up to its await.
HandleSelectHistory(i) ==
    /\ i \in 1..Len(history)
    /\ nextSeq - gensIssued < MaxSel
    /\ LET item == history[i] IN
        /\ activeItem' = Some(item)
        /\ inputText' = item.text
        /\ history' = AfterRender(history, Some(item))
        /\ PlayerRender(Some(item), FALSE)
        /\ pending' = pending \cup
              {[kind |-> "sel", seq |-> nextSeq + 1, text |-> item.text, hist |-> <<>>]}
    /\ error' = None
    /\ isLoading' = TRUE
    /\ nextSeq' = nextSeq + 1
    /\ lastOp' = <<"HandleSelectHistory", nextSeq + 1>>
    /\ UNCHANGED platformVars
    /\ UNCHANGED <<audioUrl, gensIssued, nextId, now, budget>>
    /\ SaveEffect
    /\ UNCHANGED <<phase, loaded, objectUrls>>

\* handleSelectHistory after its await, synthesis fulfilled.
SelectResolved(r) ==
    /\ r \in pending /\ r.kind = "sel"
    /\ pending' = pending \ {r}
    /\ audioUrl' = Some(ObjectUrl(r))
    /\ PlayerRender(activeItem, TRUE)
    /\ isLoading' = FALSE
    /\ lastOp' = <<"SelectResolved", r.seq>>
    /\ UNCHANGED platformVars
    /\ UNCHANGED <<history, activeItem, inputText, error, nextSeq, gensIssued, nextId, now, budget>>
    /\ SaveEffect
    /\ objectUrls' = objectUrls \cup {ObjectUrl(r)}
    /\ UNCHANGED <<phase, loaded>>

\* handleSelectHistory after its await, synthesis rejected.
SelectFailed(r) ==
    /\ r \in pending /\ r.kind = "sel"
    /\ pending' = pending \ {r}
    /\ error' = Some("Could not restore audio")
    /\ isLoading' = FALSE
    /\ lastOp' = <<"SelectFailed", r.seq>>
    /\ UNCHANGED platformVars
    /\ UNCHANGED <<history, activeItem, audioUrl, inputText, nextSeq, gensIssued, nextId,
                   now, playerVars, budget>>
    /\ SaveEffect
    /\ UNCHANGED <<phase, loaded, objectUrls>>

\* handleDeleteHistory without its call of handleBackToInput.
HandleDeleteHistoryKeepingSession(id) ==
    /\ \E i \in 1..Len(history) : history[i].id = id
    /\ history' = Remove(history, id)
    /\ lastOp' = <<"HandleDeleteHistory", id>>
    /\ UNCHANGED platformVars
    /\ UNCHANGED <<activeItem, audioUrl, playerVars, isLoading, inputText, error,
                   pending, nextSeq, gensIssued, nextId, now, budget>>
    /\ SaveEffect
    /\ UNCHANGED <<phase, loaded, objectUrls>>

\* handleDeleteHistory, with the handleBackToInput it calls.
HandleDeleteHistory(id) ==
    /\ \E i \in 1..Len(history) : history[i].id = id
    /\ history' = Remove(history, id)
    /\ IF activeItem # None /\ activeItem[1].id = id
       THEN /\ activeItem' = None
            /\ audioUrl' = None
            /\ PlayerGone
       ELSE UNCHANGED <<activeItem, audioUrl, playerVars>>
    /\ lastOp' = <<"HandleDeleteHistory", id>>
    /\ UNCHANGED platformVars
    /\ UNCHANGED <<isLoading, inputText, error, pending, nextSeq, gensIssued, nextId, now, budget>>
    /\ SaveEffect
    /\ UNCHANGED <<phase, loaded, objectUrls>>

\* handleBackToInput: the header logo, and the Player's back button.
HandleBackToInput ==
    /\ activeItem' = None
    /\ audioUrl' = None
    /\ PlayerGone
    /\ lastOp' = <<"HandleBackToInput", 0>>
    /\ UNCHANGED platformVars
    /\ UNCHANGED <<history, isLoading, inputText, error, pending, nextSeq, gensIssued,
                   nextId, now, budget>>
    /\ SaveEffect
    /\ UNCHANGED <<phase, loaded, objectUrls>>

\* clearInput: the "New Text" button, rendered while an item is active.
ClearInput ==
    /\ activeItem # None
    /\ activeItem' = None
    /\ audioUrl' = None
    /\ PlayerGone
    /\ inputText' = <<>>
    /\ lastOp' = <<"ClearInput", 0>>
    /\ UNCHANGED platformVars
    /\ UNCHANGED <<history, isLoading, error, pending, nextSeq, gensIssued, nextId, now, budget>>
    /\ SaveEffect
    /\ UNCHANGED <<phase, loaded, objectUrls>>

----------------------------------------------------------------------------
(* The Player component's handlers and the <audio> element's events *)

Min(a, b) == IF a <= b THEN a ELSE b

\* Math.floor(time), time in ticks, in seconds.
Floor(time) == time \div TicksPerSecond

\* The Player's activeItem prop.
ActiveId == activeItem[1].id

\* The range input's max: duration || 100 (seconds).
SliderMax == OrElse(duration, 100 * TicksPerSecond)

\* The values the user drags the range input to.
SeekInputs == (0..Min(SliderMax, SeekSample)) \cup {SliderMax}

\* Assigning audio.currentTime: a loaded source clamps to its end.
AudioSeek(t) ==
    IF audioUrl # None THEN Min(t, AudioDuration(audioUrl[1])) ELSE t

\* togglePlay without its early return on a missing audioUrl.
TogglePlayUnguarded ==
    /\ Mounted
    /\ budget > 0
    /\ budget' = budget - 1
    /\ isPlaying' = ~isPlaying
    /\ audioPaused' = IF audioUrl = None THEN audioPaused ELSE isPlaying
    /\ audioTime' = IF audioUrl # None /\ ~isPlaying /\ audioTime = AudioDuration(audioUrl[1])
                    THEN 0 ELSE audioTime
    /\ lastOp' = <<"TogglePlay", 0>>
    /\ UNCHANGED platformVars
    /\ UNCHANGED <<appVars, currentTime, duration, repeatMode, playbackRate,
                   currentRepeatCount, audioRate>>
    /\ SaveEffect
    /\ UNCHANGED <<phase, loaded, objectUrls>>

\* togglePlay, with the play/pause event the element then fires.
TogglePlay ==
    /\ Mounted
    /\ budget > 0
    /\ budget' = budget - 1
    /\ IF audioUrl = None
       THEN UNCHANGED <<isPlaying, audioPaused, audioTime>>
       ELSE /\ isPlaying' = ~isPlaying
            /\ audioPaused' = isPlaying
            /\ audioTime' = IF ~isPlaying /\ audioTime = AudioDuration(audioUrl[1])
                            THEN 0 ELSE audioTime
    /\ lastOp' = <<"TogglePlay", 0>>
    /\ UNCHANGED platformVars
    /\ UNCHANGED <<appVars, currentTime, duration, repeatMode, playbackRate,
                   currentRepeatCount, audioRate>>
    /\ SaveEffect
    /\ UNCHANGED <<phase, loaded, objectUrls>>

\* The element plays on by one tick of media time; lastOp keeps whether the
\* time update just before it reported progress.
AudioAdvance ==
    /\ Mounted
    /\ audioUrl # None
    /\ ~audioPaused
    /\ audioTime < AudioDuration(audioUrl[1])
    /\ audioTime' = audioTime + 1
    /\ lastOp' = <<"AudioAdvance", IF lastOp = <<"HandleTimeUpdate", 1>> THEN 1 ELSE 0>>
    /\ UNCHANGED platformVars
    /\ UNCHANGED <<appVars, isPlaying, currentTime, duration, repeatMode,
                   playbackRate, currentRepeatCount, audioPaused, audioRate, budget>>
    /\ SaveEffect
    /\ UNCHANGED <<phase, loaded, objectUrls>>

\* The test handleTimeUpdate makes before it reports progress.
Persists(time) == Floor(time) % 2 = 0

\* handleTimeUpdate; lastOp keeps whether it reported progress.
HandleTimeUpdate ==
    /\ Mounted
    /\ audioUrl # None
    /\ LET time == audioTime IN
        /\ currentTime' = time
        /\ history' = IF Persists(time)
                      THEN UpdateProgress(history, ActiveId, time, repeatMode, playbackRate)
                      ELSE history
        /\ lastOp' = <<"HandleTimeUpdate", IF Persists(time) THEN 1 ELSE 0>>
    /\ UNCHANGED platformVars
    /\ UNCHANGED <<activeItem, audioUrl, isLoading, inputText, error, pending,
                   nextSeq, gensIssued, nextId, now, isPlaying, duration, repeatMode,
                   playbackRate, currentRepeatCount, audioTime, audioPaused,
                   audioRate, budget>>
    /\ SaveEffect
    /\ UNCHANGED <<phase, loaded, objectUrls>>

\* handleLoadedMetadata
HandleLoadedMetadata ==
    /\ Mounted
    /\ audioUrl # None
    /\ duration' = AudioDuration(audioUrl[1])
    /\ lastOp' = <<"HandleLoadedMetadata", 0>>
    /\ UNCHANGED platformVars
    /\ UNCHANGED <<appVars, isPlaying, currentTime, repeatMode, playbackRate,
                   currentRepeatCount, audioTime, audioPaused, audioRate, budget>>
    /\ SaveEffect
    /\ UNCHANGED <<phase, loaded, objectUrls>>

\* handleEnded comparing with <= : one loop too many.
HandleEndedOneMore ==
    /\ Mounted
    /\ audioUrl # None
    /\ ~audioPaused
    /\ audioTime = AudioDuration(audioUrl[1])
    /\ IF currentRepeatCount <= repeatMode
       THEN /\ currentRepeatCount' = currentRepeatCount + 1
            /\ audioTime' = 0
            /\ audioPaused' = FALSE
            /\ isPlaying' = TRUE
       ELSE /\ isPlaying' = FALSE
            /\ currentRepeatCount' = 1
            /\ audioTime' = 0
            /\ audioPaused' = TRUE
    /\ lastOp' = <<"HandleEnded", currentRepeatCount>>
    /\ UNCHANGED platformVars
    /\ UNCHANGED <<appVars, currentTime, duration, repeatMode, playbackRate,
                   audioRate, budget>>
    /\ SaveEffect
    /\ UNCHANGED <<phase, loaded, objectUrls>>

\* handleEnded, run when the element reaches the end of its source while
\* playing (the element fires pause, then ended).
HandleEnded ==
    /\ Mounted
    /\ audioUrl # None
    /\ ~audioPaused
    /\ audioTime = AudioDuration(audioUrl[1])
    /\ IF currentRepeatCount < repeatMode
       THEN /\ currentRepeatCount' = currentRepeatCount + 1
            /\ audioTime' = 0
            /\ audioPaused' = FALSE
            /\ isPlaying' = TRUE
       ELSE /\ isPlaying' = FALSE
            /\ currentRepeatCount' = 1
            /\ audioTime' = 0
            /\ audioPaused' = TRUE
    /\ lastOp' = <<"HandleEnded", currentRepeatCount>>
    /\ UNCHANGED platformVars
    /\ UNCHANGED <<appVars, currentTime, duration, repeatMode, playbackRate,
                   audioRate, budget>>
    /\ SaveEffect
    /\ UNCHANGED <<phase, loaded, objectUrls>>

\* handleWordClick's estimate  (seg.startCharIndex / totalChars) * duration,
\* in whole ticks.
EstimatedStartTime(startCharIndex, totalChars, dur) ==
    (startCharIndex * dur) \div totalChars

\* handleWordClick(seg).  play() on an element with no source leaves it
\* paused.
HandleWordClick(seg) ==
    /\ Mounted
    /\ budget > 0
    /\ budget' = budget - 1
    /\ IF duration = 0
       THEN UNCHANGED <<currentTime, audioTime, isPlaying, audioPaused>>
       ELSE LET estimatedStartTime ==
                    EstimatedStartTime(seg.startCharIndex, TotalChars(activeItem[1]), duration)
            IN  /\ audioTime' = AudioSeek(estimatedStartTime)
                /\ currentTime' = estimatedStartTime
                /\ IF ~isPlaying
                   THEN /\ audioPaused' = IF audioUrl = None THEN audioPaused ELSE FALSE
                        /\ isPlaying' = TRUE
                   ELSE UNCHANGED <<isPlaying, audioPaused>>
    /\ lastOp' = <<"HandleWordClick", seg.startCharIndex>>
    /\ UNCHANGED platformVars
    /\ UNCHANGED <<appVars, duration, repeatMode, playbackRate, currentRepeatCount,
                   audioRate>>
    /\ SaveEffect
    /\ UNCHANGED <<phase, loaded, objectUrls>>

\* isSegmentActive with the character progress rounded to the nearest index.
IsSegmentActiveRounded(seg) ==
    IF duration = 0 THEN FALSE
    ELSE LET totalChars == TotalChars(activeItem[1])
             charProgress == (2 * currentTime * totalChars + duration) \div (2 * duration)
         IN  /\ charProgress >= seg.startCharIndex
             /\ charProgress < seg.endCharIndex

\* isSegmentActive(seg):  charProgress >= seg.startCharIndex &&
\* charProgress < seg.endCharIndex  with  charProgress =
\* (currentTime / duration) * totalChars, cleared of the division.
IsSegmentActive(seg) ==
    IF duration = 0 THEN FALSE
    ELSE LET totalChars == TotalChars(activeItem[1]) IN
         /\ currentTime * totalChars >= seg.startCharIndex * duration
         /\ currentTime * totalChars < seg.endCharIndex * duration

\* The restart button.
Restart ==
    /\ Mounted
    /\ audioUrl # None
    /\ budget > 0
    /\ budget' = budget - 1
    /\ audioTime' = 0
    /\ lastOp' = <<"Restart", 0>>
    /\ UNCHANGED platformVars
    /\ UNCHANGED <<appVars, isPlaying, currentTime, duration, repeatMode,
                   playbackRate, currentRepeatCount, audioPaused, audioRate>>
    /\ SaveEffect
    /\ UNCHANGED <<phase, loaded, objectUrls>>

\* The progress bar's onChange.
Seek(t) ==
    /\ Mounted
    /\ budget > 0
    /\ budget' = budget - 1
    /\ audioTime' = AudioSeek(t)
    /\ currentTime' = t
    /\ lastOp' = <<"Seek", t>>
    /\ UNCHANGED platformVars
    /\ UNCHANGED <<appVars, isPlaying, duration, repeatMode, playbackRate,
                   currentRepeatCount, audioPaused, audioRate>>
    /\ SaveEffect
    /\ UNCHANGED <<phase, loaded, objectUrls>>

\* The speed menu's onClick, with the playbackRate effect.
SelectSpeed(speed) ==
    /\ Mounted
    /\ budget > 0
    /\ budget' = budget - 1
    /\ playbackRate' = speed
    /\ IF speed # playbackRate
       THEN /\ audioRate' = speed
            /\ history' = UpdateProgress(history, ActiveId, currentTime, repeatMode, speed)
       ELSE UNCHANGED <<audioRate, history>>
    /\ lastOp' = <<"SelectSpeed", speed>>
    /\ UNCHANGED platformVars
    /\ UNCHANGED <<activeItem, audioUrl, isLoading, inputText, error, pending,
                   nextSeq, gensIssued, nextId, now, isPlaying, currentTime, duration,
                   repeatMode, currentRepeatCount, audioTime, audioPaused>>
    /\ SaveEffect
    /\ UNCHANGED <<phase, loaded, objectUrls>>

\* A repeat menu that stores one loop more than the entry chosen.
SelectRepeatOneMore(count) ==
    /\ Mounted
    /\ budget > 0
    /\ budget' = budget - 1
    /\ repeatMode' = count + 1
    /\ history' = UpdateProgress(history, ActiveId, currentTime, count + 1, playbackRate)
    /\ lastOp' = <<"SelectRepeat", count>>
    /\ UNCHANGED platformVars
    /\ UNCHANGED <<activeItem, audioUrl, isLoading, inputText, error, pending,
                   nextSeq, gensIssued, nextId, now, isPlaying, currentTime, duration,
                   playbackRate, currentRepeatCount, audioTime, audioPaused,
                   audioRate>>
    /\ SaveEffect
    /\ UNCHANGED <<phase, loaded, objectUrls>>

\* The repeat menu's onClick.
SelectRepeat(count) ==
    /\ Mounted
    /\ budget > 0
    /\ budget' = budget - 1
    /\ repeatMode' = count
    /\ history' = UpdateProgress(history, ActiveId, currentTime, count, playbackRate)
    /\ lastOp' = <<"SelectRepeat", count>>
    /\ UNCHANGED platformVars
    /\ UNCHANGED <<activeItem, audioUrl, isLoading, inputText, error, pending,
                   nextSeq, gensIssued, nextId, now, isPlaying, currentTime, duration,
                   playbackRate, currentRepeatCount, audioTime, audioPaused,
                   audioRate>>
    /\ SaveEffect
    /\ UNCHANGED <<phase, loaded, objectUrls>>

----------------------------------------------------------------------------
(* The App with its Player *)

\* The history parsed from localStorage when the App mounts: one item, left
\* two seconds in, on five loops at 1.5x.
StoredHistory ==
    << HistoryItem(1, TextA, <<Token(TextA, None)>>, 0, 2 * TicksPerSecond, 5, 15) >>

Init ==
    /\ history = StoredHistory
    /\ activeItem = None
    /\ audioUrl = None
    /\ isLoading = FALSE
    /\ inputText = <<>>
    /\ error = None
    /\ pending = {}
    /\ nextSeq = 0
    /\ gensIssued = 0
    /\ nextId = Len(history)
    /\ now = 1
    /\ isPlaying = FALSE
    /\ currentTime = 0
    /\ duration = 0
    /\ repeatMode = ONCE
    /\ playbackRate = DefaultRate
    /\ currentRepeatCount = 1
    /\ audioTime = 0
    /\ audioPaused = TRUE
    /\ audioRate = DefaultRate
    /\ segmenter = "wordRuns"
    /\ pcmData = <<>>
    /\ sampleRate = SAMPLE_RATE
    /\ wavBuffer = None
    /\ budget = MaxGestures
    /\ lastOp = <<"Init", 0>>
    /\ storage = Stringify(history)
    /\ phase = "ready"
    /\ loaded = None
    /\ objectUrls = {}

Next ==
    \/ \E t \in InputTexts : SetInputText(t)
    \/ HandleGenerate
    \/ \E r \in pending : GenerateFailed(r)
    \/ \E r \in pending : \E tokens \in AnalysisResults(r.text) : GenerateResolved(r, tokens)
    \/ \E i \in 1..Len(history) : HandleSelectHistory(i)
    \/ \E r \in pending : SelectResolved(r)
    \/ \E r \in pending : SelectFailed(r)
    \/ \E id \in 1..(nextId) : HandleDeleteHistory(id)
    \/ HandleBackToInput
    \/ ClearInput
    \/ HandleTimeUpdate
    \/ HandleLoadedMetadata
    \/ \E t \in SeekInputs : Seek(t)
    \/ \E speed \in PLAYBACK_SPEEDS : SelectSpeed(speed)
    \/ \E count \in REPEAT_COUNTS : SelectRepeat(count)

Spec == Init /\ [][Next]_vars

----------------------------------------------------------------------------
(* A listening session: the App's views with the Player's playback controls *)

SessionInit ==
    /\ history = StoredHistory
    /\ activeItem = None
    /\ audioUrl = None
    /\ isLoading = FALSE
    /\ inputText = <<>>
    /\ error = None
    /\ pending = {}
    /\ nextSeq = 0
    /\ gensIssued = 0
    /\ nextId = Len(history)
    /\ now = 1
    /\ isPlaying = FALSE
    /\ currentTime = 0
    /\ duration = 0
    /\ repeatMode = ONCE
    /\ playbackRate = DefaultRate
    /\ currentRepeatCount = 1
    /\ audioTime = 0
    /\ audioPaused = TRUE
    /\ audioRate = DefaultRate
    /\ segmenter = "wordRuns"
    /\ pcmData = <<>>
    /\ sampleRate = SAMPLE_RATE
    /\ wavBuffer = None
    /\ budget = MaxPlayerGestures
    /\ lastOp = <<"Init", 0>>
    /\ storage = Stringify(history)
    /\ phase = "ready"
    /\ loaded = None
    /\ objectUrls = {}

SessionNext ==
    \/ \E t \in InputTexts : SetInputText(t)
    \/ HandleGenerate
    \/ \E r \in pending : \E tokens \in AnalysisResults(r.text) : GenerateResolved(r, tokens)
    \/ \E i \in 1..Len(history) : HandleSelectHistory(i)
    \/ \E r \in pending : SelectResolved(r)
    \/ HandleBackToInput
    \/ HandleLoadedMetadata
    \/ TogglePlay
    \/ AudioAdvance
    \/ HandleTimeUpdate
    \/ Mounted /\ \E k \in 1..Len(Segments(activeItem[1])) :
                      HandleWordClick(Segments(activeItem[1])[k])

SessionSpec == SessionInit /\ [][SessionNext]_vars

----------------------------------------------------------------------------
(* The App from before its first render: the load and save effects *)

\* What localStorage may hold under STORAGE_KEY when the page is opened.
Snapshots == {Absent, Garbage, NotAnArray, Stringify(<<>>), Stringify(StoredHistory)}

StoreInit ==
    /\ storage \in Snapshots
    /\ phase = "unmounted"
    /\ loaded = None
    /\ objectUrls = {}
    /\ history = <<>>
    /\ activeItem = None
    /\ audioUrl = None
    /\ isLoading = FALSE
    /\ inputText = <<>>
    /\ error = None
    /\ pending = {}
    /\ nextSeq = 0
    /\ gensIssued = 0
    /\ nextId = Len(StoredHistory)
    /\ now = 1
    /\ isPlaying = FALSE
    /\ currentTime = 0
    /\ duration = 0
    /\ repeatMode = ONCE
    /\ playbackRate = DefaultRate
    /\ currentRepeatCount = 1
    /\ audioTime = 0
    /\ audioPaused = TRUE
    /\ audioRate = DefaultRate
    /\ segmenter = "wordRuns"
    /\ pcmData = <<>>
    /\ sampleRate = SAMPLE_RATE
    /\ wavBuffer = None
    /\ budget = MaxGestures
    /\ lastOp = <<"Init", 0>>

\* The effects of the first render, in the order they are declared: the
\* load effect reads the key and, when JSON.parse accepts the string, calls
\* setHistory(parsed); the save effect writes the history of this render,
\* which is still [].
Mount ==
    /\ phase = "unmounted"
    /\ loaded' = IF storage.kind \in {"absent", "garbage"} THEN None
                 ELSE Some([kind |-> storage.kind, value |-> Parse(storage)])
    /\ storage' = Stringify(history)
    /\ phase' = IF loaded' = None THEN "ready" ELSE "loading"
    /\ lastOp' = <<"Mount", 0>>
    /\ UNCHANGED <<appVars, playerVars, platformVars, objectUrls, budget>>

\* The render setHistory(parsed) asked for.  With an array the save effect
\* runs on the new history; with any other value HistorySidebar's
\* history.map throws while rendering and React unmounts the tree.
LoadCommitted ==
    /\ phase = "loading"
    /\ loaded' = None
    /\ IF loaded[1].kind = "array"
       THEN /\ history' = loaded[1].value
            /\ storage' = Stringify(history')
            /\ phase' = "ready"
       ELSE /\ phase' = "crashed"
            /\ UNCHANGED <<history, storage>>
    /\ lastOp' = <<"LoadCommitted", 0>>
    /\ UNCHANGED <<activeItem, audioUrl, isLoading, inputText, error, pending,
                   nextSeq, gensIssued, nextId, now, playerVars, platformVars,
                   objectUrls, budget>>

StoreNext ==
    \/ Mount
    \/ LoadCommitted
    \/ phase = "ready" /\ Next

StoreSpec == StoreInit /\ [][StoreNext]_vars

----------------------------------------------------------------------------
(* The Player on its own: one stored item has been selected from the       *)
(* history and its audio has been restored.                                 *)

PlayerInit ==
    \E rMode \in REPEAT_COUNTS : \E pos \in {0, 2 * TicksPerSecond} :
    \E tokens \in AnalysisResults(TextA) \ {<<>>} :
      LET item == HistoryItem(1, TextA, tokens, 0, pos, rMode, 15) IN
        /\ history = <<item>>
        /\ activeItem = Some(item)
        /\ audioUrl = Some(ObjectUrl([seq |-> 1, text |-> TextA]))
        /\ isLoading = FALSE
        /\ inputText = TextA
        /\ error = None
        /\ pending = {}
        /\ nextSeq = 1
        /\ gensIssued = 0
        /\ nextId = 1
        /\ now = 1
        /\ isPlaying = FALSE
        /\ currentTime = pos
        /\ duration = 0
        /\ repeatMode = rMode
        /\ playbackRate = 15
        /\ currentRepeatCount = 1
        /\ audioTime = pos
        /\ audioPaused = TRUE
        /\ audioRate = 15
        /\ segmenter = "wordRuns"
        /\ pcmData = <<>>
        /\ sampleRate = SAMPLE_RATE
        /\ wavBuffer = None
        /\ budget = MaxPlayerGestures
        /\ lastOp = <<"SelectResolved", 1>>
        /\ storage = Stringify(history)
        /\ phase = "ready"
        /\ loaded = None
        /\ objectUrls = {audioUrl[1]}

PlayerNext ==
    \/ TogglePlay
    \/ AudioAdvance
    \/ HandleTimeUpdate
    \/ HandleLoadedMetadata
    \/ HandleEnded
    \/ Restart
    \/ Mounted /\ \E k \in 1..Len(Segments(activeItem[1])) :
                      HandleWordClick(Segments(activeItem[1])[k])
    \/ \E t \in SeekInputs : Seek(t)
    \/ \E speed \in PLAYBACK_SPEEDS : SelectSpeed(speed)
    \/ \E count \in REPEAT_COUNTS : SelectRepeat(count)

PlayerSpec == PlayerInit /\ [][PlayerNext]_vars

----------------------------------------------------------------------------
(* The segment mapper on its own: the Player is shown one stored item, of  *)
(* any short text, analysed or not, on any of the platforms.                *)

MaxTextLen == 3

\* Two kana, a space and one Kanji character.
Alphabet == {"k", "a", " ", "日"}

TextsUpTo(n) == UNION {[1..m -> Alphabet] : m \in 0..n}

\* The ways to cut text into consecutive non-empty surfaces: the analyzer's
\* contract is that the surfaces concatenate to the text.
RECURSIVE Cuts(_)
Cuts(text) ==
    IF text = <<>> THEN {<<>>}
    ELSE UNION { { <<SubSeq(text, 1, n)>> \o rest :
                      rest \in Cuts(SubSeq(text, n + 1, Len(text))) } :
                 n \in 1..Len(text) }

\* The token lists the analyzer may have stored for text: every cut, every
\* token with or without a reading.
Readings == {None, Some(<<"a">>)}

Analyses(text) ==
    UNION { { [i \in 1..Len(cut) |-> Token(cut[i], rd[i])] :
                 rd \in [1..Len(cut) -> Readings] } :
            cut \in Cuts(text) }

SegInit ==
    \E text \in TextsUpTo(MaxTextLen) : \E tokens \in {<<>>} \cup Analyses(text) :
        /\ history = << HistoryItem(1, text, tokens, 0, 0, ONCE, DefaultRate) >>
        /\ activeItem = None
        /\ audioUrl = None
        /\ isLoading = FALSE
        /\ inputText = <<>>
        /\ error = None
        /\ pending = {}
        /\ nextSeq = 0
        /\ gensIssued = 0
        /\ nextId = 1
        /\ now = 1
        /\ isPlaying = FALSE
        /\ currentTime = 0
        /\ duration = 0
        /\ repeatMode = ONCE
        /\ playbackRate = DefaultRate
        /\ currentRepeatCount = 1
        /\ audioTime = 0
        /\ audioPaused = TRUE
        /\ audioRate = DefaultRate
        /\ segmenter \in {"unavailable", "wordRuns", "perChar"}
        /\ pcmData = <<>>
        /\ sampleRate = SAMPLE_RATE
        /\ wavBuffer = None
        /\ budget = 0
        /\ lastOp = <<"Init", 0>>
        /\ storage = Stringify(history)
        /\ phase = "ready"
        /\ loaded = None
        /\ objectUrls = {}

SegNext ==
    \/ \E i \in 1..Len(history) : HandleSelectHistory(i)
    \/ \E r \in pending : SelectResolved(r)
    \/ HandleBackToInput

SegSpec == SegInit /\ [][SegNext]_vars

----------------------------------------------------------------------------
(* The encoder on its own: generateJapaneseSpeech has decoded the payload  *)
(* of the synthesis response and wraps it.                                  *)

MaxPcmLen == 3

PcmBytes == {0, 1, 255}

SampleRates == {8000, SAMPLE_RATE, 44100, 48000}

WavInit ==
    /\ pcmData \in UNION {[1..m -> PcmBytes] : m \in 0..MaxPcmLen}
    /\ sampleRate \in SampleRates
    /\ wavBuffer = None
    /\ history = <<>>
    /\ activeItem = None
    /\ audioUrl = None
    /\ isLoading = TRUE
    /\ inputText = TextA
    /\ error = None
    /\ pending = {}
    /\ nextSeq = 0
    /\ gensIssued = 0
    /\ nextId = 0
    /\ now = 1
    /\ isPlaying = FALSE
    /\ currentTime = 0
    /\ duration = 0
    /\ repeatMode = ONCE
    /\ playbackRate = DefaultRate
    /\ currentRepeatCount = 1
    /\ audioTime = 0
    /\ audioPaused = TRUE
    /\ audioRate = DefaultRate
    /\ segmenter = "wordRuns"
    /\ budget = 0
    /\ lastOp = <<"Init", 0>>
    /\ storage = Stringify(history)
    /\ phase = "ready"
    /\ loaded = None
    /\ objectUrls = {}

\* const wavBuffer = pcmToWav(bytes, SAMPLE_RATE)
EncodeWav ==
    /\ wavBuffer = None
    /\ wavBuffer' = Some(PcmToWav(pcmData, sampleRate))
    /\ lastOp' = <<"PcmToWav", 0>>
    /\ UNCHANGED <<appVars, playerVars, storeVars, segmenter, pcmData, sampleRate, budget>>

WavNext == EncodeWav

WavSpec == WavInit /\ [][WavNext]_vars

----------------------------------------------------------------------------
(* Claims about the encoder and the segment mapper *)

\* A little-endian field of a buffer, read back.
RECURSIVE DecodeLE(_)
DecodeLE(bytes) ==
    IF bytes = <<>> THEN 0 ELSE Head(bytes) + 256 * DecodeLE(Tail(bytes))

Field(buffer, offset, nbytes) == DecodeLE(SubSeq(buffer, offset + 1, offset + nbytes))

\* C10: for a payload of length L and sample rate R the encoder returns
\* 44 + L bytes: "RIFF", total size 36 + L at offset 4, "WAVE", "fmt ", chunk
\* size 16, format 1, channels 1, sample rate R, byte rate 2R, block align 2,
\* bits per sample 16, "data", data size L at offset 40, then the payload
\* verbatim from offset 44; every field little-endian.
C10_WavHeader ==
    wavBuffer # None =>
        LET buf == wavBuffer[1]
            L == Len(pcmData)
        IN  /\ Len(buf) = 44 + L
            /\ SubSeq(buf, 1, 4) = <<82, 73, 70, 70>>
            /\ Field(buf, 4, 4) = 36 + L
            /\ SubSeq(buf, 9, 16) = <<87, 65, 86, 69, 102, 109, 116, 32>>
            /\ Field(buf, 16, 4) = 16
            /\ Field(buf, 20, 2) = 1
            /\ Field(buf, 22, 2) = 1
            /\ Field(buf, 24, 4) = sampleRate
            /\ Field(buf, 28, 4) = 2 * sampleRate
            /\ Field(buf, 32, 2) = 2
            /\ Field(buf, 34, 2) = 16
            /\ SubSeq(buf, 37, 40) = <<100, 97, 116, 97>>
            /\ Field(buf, 40, 4) = L
            /\ SubSeq(buf, 45, 44 + L) = pcmData

\* An empty payload has been encoded: the buffer is the bare 44-byte header.
C10_Witness ==
    /\ wavBuffer # None
    /\ pcmData = <<>>
    /\ Len(wavBuffer[1]) = 44
    /\ sampleRate = SAMPLE_RATE

RECURSIVE ConcatText(_)
ConcatText(segs) ==
    IF segs = <<>> THEN <<>> ELSE Head(segs).segment \o ConcatText(Tail(segs))

Tiles(segs, text) ==
    /\ segs # <<>> => segs[1].startCharIndex = 0
    /\ segs # <<>> => segs[Len(segs)].endCharIndex = Len(text)
    /\ \A i \in 1..Len(segs) : segs[i].startCharIndex <= segs[i].endCharIndex
    /\ \A i \in 1..(Len(segs) - 1) : segs[i + 1].startCharIndex = segs[i].endCharIndex
    /\ ConcatText(segs) = text

----------------------------------------------------------------------------
(* Claims about the Player *)

\* C4: when playback ends on iteration i of n configured loops: if i < n the
\* counter becomes i + 1, the position is 0 and the player is playing; if
\* i >= n the counter is 1 again, the position is 0 and the player is paused.
C4_OnPlaybackEnded ==
    [][ lastOp'[1] = "HandleEnded" =>
          IF currentRepeatCount < repeatMode
          THEN /\ currentRepeatCount' = currentRepeatCount + 1
               /\ audioTime' = 0
               /\ isPlaying'
               /\ ~audioPaused'
          ELSE /\ currentRepeatCount' = 1
               /\ audioTime' = 0
               /\ ~isPlaying' ]_vars

\* With five loops configured, playback has just ended on iteration 5: the
\* player has stopped and the counter is back at 1.
C4_Witness ==
    /\ lastOp = <<"HandleEnded", 5>>
    /\ repeatMode = 5
    /\ currentRepeatCount = 1
    /\ audioTime = 0
    /\ ~isPlaying

\* C5: choosing a repeat count from the menu resets the iteration counter
\* to 1.
C5_SetRepeatCountResets ==
    [][ lastOp'[1] = "SelectRepeat" => currentRepeatCount' = 1 ]_vars

----------------------------------------------------------------------------
(* Claims about the history store and the active session *)

HasText(hist, text) == \E i \in 1..Len(hist) : hist[i].text = text

HasId(hist, id) == \E i \in 1..Len(hist) : hist[i].id = id

\* C1: when createOrUpdate commits for a text the history already holds (an
\* earlier call put it there and nothing removed it since), the history
\* afterwards holds exactly one item with that text: it has the id the item
\* had, createdAt of this call, and this call's tokens if the analysis was
\* non-empty, otherwise the tokens the item had.
C1_CreateOrUpdateTwice ==
    [][ \A r \in pending : \A tokens \in AnalysisResults(r.text) :
          (GenerateResolved(r, tokens) /\ HasText(history, r.text)) =>
            LET old == history[CHOOSE j \in 1..Len(history) : history[j].text = r.text]
                same == {i \in 1..Len(history') : history'[i].text = r.text}
            IN  /\ Cardinality(same) = 1
                /\ \A i \in same :
                      /\ history'[i].id = old.id
                      /\ history'[i].createdAt = now
                      /\ history'[i].tokens = IF tokens # <<>> THEN tokens ELSE old.tokens
      ]_vars

\* C2: the commit of a generation request keeps what remove and
\* updateProgress did while the request was in flight: every item of the
\* history after the commit was in the history before it or is the new item,
\* and every item kept has the lastPosition, repeat count and playback rate
\* it had before the commit.
C2_MutationsSurviveCommit ==
    [][ lastOp'[1] = "GenerateResolved" =>
          /\ \A i \in 1..Len(history') :
                HasId(history, history'[i].id) \/ history'[i].id = nextId + 1
          /\ \A i \in 1..Len(history') : \A j \in 1..Len(history) :
                history'[i].id = history[j].id =>
                    /\ history'[i].lastPosition = history[j].lastPosition
                    /\ history'[i].repeatMode = history[j].repeatMode
                    /\ history'[i].playbackRate = history[j].playbackRate
      ]_vars

\* A request issued after r holds the session: its audio is loaded, or it is
\* a restore still in flight whose item is the active one.
LaterTookOver(r) ==
    \/ audioUrl # None /\ audioUrl[1].seq > r.seq
    \/ \E q \in pending :
          /\ q.kind = "sel" /\ q.seq > r.seq
          /\ activeItem # None /\ activeItem[1].text = q.text

\* C3: a synthesis request that resolves after a later-issued request has
\* taken over the session is discarded: it changes neither the active item
\* nor the loaded audio handle.
C3_LastRequestWins ==
    [][ \A r \in pending :
          ( /\ lastOp' \in {<<"GenerateResolved", r.seq>>, <<"SelectResolved", r.seq>>}
            /\ LaterTookOver(r) )
          => UNCHANGED <<activeItem, audioUrl>>
      ]_vars

\* C6: remove(id) deletes exactly the item with that id, keeping the others
\* in order; the session (active item and audio handle) is cleared if that
\* item was the active one and is left as it was otherwise.
C6_Remove ==
    [][ lastOp'[1] = "HandleDeleteHistory" =>
          LET id == lastOp'[2] IN
          /\ \E k \in 1..Len(history) :
                /\ history[k].id = id
                /\ \A j \in 1..Len(history) : history[j].id = id => j = k
                /\ history' = SubSeq(history, 1, k - 1) \o SubSeq(history, k + 1, Len(history))
          /\ IF activeItem # None /\ activeItem[1].id = id
             THEN activeItem' = None /\ audioUrl' = None
             ELSE UNCHANGED <<activeItem, audioUrl>>
      ]_vars

\* The stored item was selected and then deleted while its restore was in
\* flight: the session is cleared and another item is still in the history.
C6_Witness ==
    /\ lastOp = <<"HandleDeleteHistory", 1>>
    /\ activeItem = None
    /\ audioUrl = None
    /\ \E r \in pending : r.kind = "sel" /\ r.text = TextA
    /\ Len(history) = 1
    /\ history[1].id = 2

\* C7: a progress report changes only lastPosition, repeatMode and
\* playbackRate of the item with the reported id: the length and order of
\* the history and every id, text, tokens and createdAt stay, and every
\* other item stays as it is; for an id no item has, updateProgress returns
\* the collection as it is.
C7_UpdateProgressFrame ==
    [][ lastOp'[1] \in {"HandleTimeUpdate", "SelectSpeed", "SelectRepeat"} =>
          /\ \A id \in 1..(nextId + 1) :
                ~HasId(history, id) =>
                    UpdateProgress(history, id, currentTime', repeatMode', playbackRate')
                        = history
          /\ Len(history') = Len(history)
          /\ \A i \in 1..Len(history) :
                /\ history'[i].id = history[i].id
                /\ history'[i].text = history[i].text
                /\ history'[i].tokens = history[i].tokens
                /\ history'[i].createdAt = history[i].createdAt
                /\ history[i].id # ActiveId => history'[i] = history[i]
      ]_vars

\* The second item of the history is the active one and the repeat menu has
\* just written 10 loops into it, in place.
C7_Witness ==
    /\ lastOp = <<"SelectRepeat", 10>>
    /\ Len(history) = 2
    /\ history[2].id = ActiveId
    /\ history[2].repeatMode = 10
    /\ history[1].repeatMode = ONCE

\* C8: when an item is handed to the player (a generation commits, or it is
\* selected from the history, also while another item is shown), the
\* player's rate and repeat count become the item's own; and when its audio
\* is loaded the position is its lastPosition when that is > 0.
C8_ItemSettingsLoaded ==
    [][ /\ lastOp'[1] \in {"HandleSelectHistory", "GenerateResolved"} =>
              LET item == activeItem'[1] IN
              /\ playbackRate' = OrElse(item.playbackRate, DefaultRate)
              /\ repeatMode' = OrElse(item.repeatMode, ONCE)
        /\ (lastOp'[1] \in {"SelectResolved", "GenerateResolved"} /\ activeItem' # None) =>
              LET item == activeItem'[1] IN
              item.lastPosition > 0 => currentTime' = item.lastPosition
      ]_vars

\* C11: a generation request whose synthesis fails surfaces an error and
\* leaves the history (its items and their order) and the active session as
\* they are, both when it is issued and when it fails.
C11_SynthesisFailureLeavesHistory ==
    [][ /\ lastOp'[1] = "HandleGenerate" => UNCHANGED <<history, activeItem>>
        /\ lastOp'[1] = "GenerateFailed" =>
              /\ error' # None
              /\ ~isLoading'
              /\ UNCHANGED <<history, activeItem, audioUrl>>
      ]_vars

\* A generation for a new text has failed: the error is shown, the history
\* is the stored one and no session is active.
C11_Witness ==
    /\ lastOp[1] = "GenerateFailed"
    /\ error # None
    /\ history = StoredHistory
    /\ inputText = TextB
    /\ activeItem = None

\* C12: when the analysis fails and the synthesis succeeds the request
\* commits with no error surfaced: the item with the text is in the history
\* and is the active session, and a non-empty token sequence the history
\* held for that text is the one the item has afterwards.
C12_AnalysisFailureIsSilent ==
    [][ \A r \in pending :
          GenerateResolved(r, <<>>) =>
            /\ error' = error
            /\ ~isLoading'
            /\ activeItem' # None /\ activeItem'[1].text = r.text
            /\ audioUrl' # None
            /\ HasText(history', r.text)
            /\ \A j \in 1..Len(history) :
                  (history[j].text = r.text /\ history[j].tokens # <<>>) =>
                      /\ activeItem'[1].tokens = history[j].tokens
                      /\ \A i \in 1..Len(history') :
                            history'[i].text = r.text =>
                                history'[i].tokens = history[j].tokens
      ]_vars

\* C13: when the stored snapshot is absent or corrupt (not parseable, or
\* parseable but no array) the App starts with the empty history and runs:
\* no startup ends with the App torn down.
C13_StartupDegradesToEmpty ==
    [][ /\ (lastOp'[1] = "Mount" /\ storage.kind \in {"absent", "garbage"}) =>
              (history' = <<>> /\ phase' = "ready")
        /\ (lastOp'[1] = "LoadCommitted" /\ loaded[1].kind # "array") =>
              (history' = <<>> /\ phase' = "ready")
        /\ phase' # "crashed"
      ]_vars

\* The handlers that change the history.
Mutations ==
    {"GenerateResolved", "HandleSelectHistory", "HandleDeleteHistory",
     "HandleTimeUpdate", "SelectSpeed", "SelectRepeat"}

\* C14: the snapshot is read at startup only; a stored collection is
\* replaced only by a handler that changes the history, and by the history
\* it leaves; and whenever the App is ready the stored snapshot parses to
\* the history in memory, item for item in the same order.
C14_SnapshotRoundTrips ==
    [][ /\ (loaded' # None /\ loaded' # loaded) => lastOp'[1] = "Mount"
        /\ (storage.kind = "array" /\ storage' # storage) =>
              /\ lastOp'[1] \in Mutations
              /\ storage' = Stringify(history')
        /\ phase' = "ready" =>
              (storage'.kind = "array" /\ Parse(storage') = history')
      ]_vars

\* C15: the handles created and not released are at most the one that is
\* loaded.
C15_HandlesReleased ==
    objectUrls \subseteq (IF audioUrl = None THEN {} ELSE {audioUrl[1]})

C17_CreateOrUpdateToFront ==
    [][ \A r \in pending : \A tokens \in AnalysisResults(r.text) :
          GenerateResolved(r, tokens) =>
            /\ history' # <<>>
            /\ history'[1].text = r.text
            /\ Tail(history') = SelectSeq(history, LAMBDA item : item.text # r.text)
            /\ ~HasText(history, r.text) =>
                  /\ Len(history') = Len(history) + 1
                  /\ history'[1].lastPosition = 0
                  /\ history'[1].repeatMode = ONCE
                  /\ history'[1].playbackRate = DefaultRate
      ]_vars


\* C18: selecting a segment that starts at character s, with a known
\* duration > 0, puts the position at (s / totalChars) * duration (duration 10
\* and 100 characters put the segment [20, 30) at 2.0), inside [0, duration],
\* on the element as in the Player's state, and leaves the player playing
\* whether it was playing or paused before.
C18_SelectSegmentSeeksAndPlays ==
    [][ (lastOp'[1] = "HandleWordClick" /\ duration > 0) =>
          LET s == lastOp'[2]
              totalChars == TotalChars(activeItem[1])
          IN  /\ EstimatedStartTime(20, 100, 10 * TicksPerSecond) = 2 * TicksPerSecond
              /\ currentTime' * totalChars <= s * duration
              /\ s * duration < (currentTime' + 1) * totalChars
              /\ 0 <= currentTime' /\ currentTime' <= duration
              /\ audioTime' = currentTime'
              /\ isPlaying' /\ ~audioPaused' ]_vars


\* The 2-second window of media time a time falls in.
Window(time) == Floor(time) \div 2

\* C19: progress reports are throttled: of consecutive time updates of a
\* playing element that fall in the same 2-second window of media time, at
\* most one calls updateProgress.  Stated on a time update that reports
\* right after the update one tick earlier reported too.
C19_ProgressThrottled ==
    [][ (lastOp = <<"AudioAdvance", 1>> /\ lastOp' = <<"HandleTimeUpdate", 1>>) =>
          Window(audioTime - 1) # Window(audioTime) ]_vars


\* The segments the Player draws, and those it highlights.
Drawn == Segments(activeItem[1])
Active == {k \in 1..Len(Drawn) : IsSegmentActive(Drawn[k])}

\* The character index the progress falls on, and the index nearest to it.
FlooredIndex == (currentTime * TotalChars(activeItem[1])) \div duration
RoundedIndex == (2 * currentTime * TotalChars(activeItem[1]) + duration) \div (2 * duration)

\* A position the Player can highlight at.
Highlighting ==
    /\ Mounted
    /\ duration > 0
    /\ 0 <= currentTime /\ currentTime <= duration

C21_PlaybackFailuresAreNoOps ==
    [][ /\ (lastOp'[1] = "TogglePlay" /\ audioUrl = None) =>
               UNCHANGED <<appVars, playerVars>>
        /\ (Mounted /\ duration = 0) => Active = {}
        /\ (lastOp'[1] = "HandleWordClick" /\ duration = 0) =>
               UNCHANGED <<appVars, playerVars>> ]_vars

\* togglePlay was pressed a second time on a Player that shows segments and
\* has no audio yet.
C21_Witness ==
    /\ Mounted
    /\ audioUrl = None
    /\ duration = 0
    /\ Len(Drawn) > 0
    /\ lastOp[1] = "TogglePlay"
    /\ budget = 0


\* The stored entry of the item the Player shows.
ActiveEntry(hist) == hist[CHOOSE i \in 1..Len(hist) : hist[i].id = ActiveId]

\* C22: a seek sets the current time at once, in the Player and on the
\* element, to the requested time inside [0, duration], playing or paused;
\* and once the duration is known the Player's current time and every
\* lastPosition it reports lie in [0, duration].
C22_TimeWithinDuration ==
    [][ /\ (lastOp'[1] = "Seek" /\ duration > 0) =>
               /\ currentTime' = Min(lastOp'[2], duration)
               /\ audioTime' = currentTime'
               /\ isPlaying' = isPlaying
        /\ (Mounted' /\ duration' > 0) =>
               (0 <= currentTime' /\ currentTime' <= duration')
        /\ (Mounted /\ duration > 0 /\ history' # history
              /\ \E i \in 1..Len(history') : history'[i].id = ActiveId) =>
               /\ 0 <= ActiveEntry(history').lastPosition
               /\ ActiveEntry(history').lastPosition <= duration ]_vars


\* The token list is used when it is not empty.
TokenPath(item) == Len(item.tokens) > 0

\* The Kanji characters of the alphabet.
IsKanji(ch) == ch = "日"

HasKanji(surface) == \E i \in 1..Len(surface) : IsKanji(surface[i])

\* C23: in the token path a segment's reading is what the token carried when
\* the token has a Kanji character and a reading was supplied, and is absent
\* for every token without a Kanji character; in both fallback paths every
\* segment's reading is absent.
C23_ReadingsOnlyOnKanji ==
    Mounted =>
        LET item == activeItem[1] IN
        IF TokenPath(item)
        THEN /\ Len(Drawn) = Len(item.tokens)
             /\ \A k \in 1..Len(Drawn) :
                    /\ (HasKanji(item.tokens[k].surface) /\ item.tokens[k].reading # None)
                           => Drawn[k].reading = item.tokens[k].reading
                    /\ ~HasKanji(item.tokens[k].surface) => Drawn[k].reading = None
        ELSE \A k \in 1..Len(Drawn) : Drawn[k].reading = None


\* C24: from a history of pairwise-distinct texts, whatever generations,
\* selections, progress reports and removals follow and however they
\* interleave, no two items of the history have the same text.
C24_TextsDistinct ==
    \A i, j \in 1..Len(history) : history[i].text = history[j].text => i = j

\* A text already in the history was generated again, after another text
\* had been added.
C24_Witness ==
    /\ lastOp[1] = "GenerateResolved"
    /\ gensIssued = 2
    /\ Len(history) = 2
    /\ history[1].text = TextA
    /\ history[1].id = StoredHistory[1].id


\* C25: in every state of a mounted Player the iteration counter is at
\* least 1 and at most the configured repeat count, whatever togglePlay,
\* repeat-menu, ended and seek steps led there.
C25_CounterWithinRepeatCount ==
    Mounted => (1 <= currentRepeatCount /\ currentRepeatCount <= repeatMode)


\* C26: whenever the session has an active item and a loaded audio handle,
\* the audio was synthesized from the active item's text; so every position
\* reported under the active item's id is a position in that item's audio.
C26_AudioBelongsToActiveItem ==
    (activeItem # None /\ audioUrl # None) => audioUrl[1].text = activeItem[1].text


\* C27: in every state with an active session the history holds an item with
\* the active item's id, however generations, selections, removals and
\* progress reports interleave.
C27_ActiveItemInHistory ==
    activeItem # None => HasId(history, ActiveId)

\* Another item was removed while a session was active, with a request
\* still in flight.
C27_Witness ==
    /\ activeItem # None
    /\ lastOp[1] = "HandleDeleteHistory"
    /\ lastOp[2] # ActiveId
    /\ Len(history) = 1
    /\ pending # {}

\* C28: while a synthesis request, a generation or a restore, is in flight
\* the loading flag is true, so Generate is disabled and no second
\* generation is issued before every pending request has resolved.
C28_LoadingWhilePending ==
    [][ /\ pending' # {} => isLoading'
        /\ lastOp'[1] = "HandleGenerate" => pending = {} ]_vars

====
